---- MODULE Spec2Model ----
(***************************************************************************)
(* Model of the cxx bindings for C++ std::optional<T> (src/cxx_optional.rs)*)
(* and of the layout-compatible mirror of Rust's Option<T>                 *)
(* (src/rust_option.rs).                                                   *)
(*                                                                         *)
(* Spec       : CxxOptional<T>, the OptionalElement bindings and the       *)
(*              owning handle (the `repr` of a unique_ptr) for one element *)
(*              type T, chosen in Init among the twelve supported ones.    *)
(* MirrorSpec : RustOption<T> and the native Option<T> values around it.   *)
(***************************************************************************)
EXTENDS Integers, Sequences, FiniteSets, TLC

\* ---------------------------------------------------------------- bounds
MaxObjs == 1        \* foreign optionals the C++ side may allocate
MaxHandles == 2     \* owning handles the host may create
MaxVal == 1         \* payload values are 0..MaxVal
MaxHostSlots == 2   \* native Option<T> values living in host memory

Objs == 1..MaxObjs
Handles == 1..MaxHandles
Values == 0..MaxVal
HostAddrs == 1..MaxHostSlots

\* ptr::null_mut::<c_void>()
NULL == 0

\* Option<X>: None is the empty sequence, Some(x) the one-element sequence.
None == <<>>
Some(x) == <<x>>
Options == {None} \cup {Some(x) : x \in Values}
OptionIsSome(o) == Len(o) = 1
OptionIsNone(o) == Len(o) = 0

\* The element types impl_optional_element_for_primitive! is invoked for.
ElementTypes ==
    {"u8", "u16", "u32", "u64", "usize",
     "i8", "i16", "i32", "i64", "isize", "f32", "f64"}

VARIABLES
    ty,        \* the element type T of this instantiation
    heap,      \* foreign heap: the C++ optionals, by address
    rawOwned,  \* raw pointers whose ownership the host caller holds
    handles,   \* the caller's owning-handle values (repr: *mut c_void)
    op,        \* last host operation
    arg,       \* its argument (an object address or a handle slot)
    ret,       \* its return value
    calls,     \* the foreign calls it made, in order
    hostMem,   \* native Option<T> values in host memory, by address
    mirror,    \* the RustOption<T> value the host holds (or Absent)
    hist,      \* how that RustOption was built and last written
    mop,       \* last RustOption operation
    marg,      \* its argument
    mret       \* its return value

cxxVars == <<ty, heap, rawOwned, handles, op, arg, ret, calls>>
mirrorVars == <<hostMem, mirror, hist, mop, marg, mret>>
vars == <<ty, heap, rawOwned, handles, op, arg, ret, calls,
          hostMem, mirror, hist, mop, marg, mret>>

\* ------------------------------------------------------------ link names
\* concat!("cxxbridge03$std$optional$", stringify!($ty), "$", name)
OptionalSymbol(t, name) == "cxxbridge03$std$optional$" \o t \o "$" \o name
\* concat!("cxxbridge03$unique_ptr$std$optional$", stringify!($ty), "$", name)
UniquePtrSymbol(t, name) ==
    "cxxbridge03$unique_ptr$std$optional$" \o t \o "$" \o name

Call(sym, a, r) == [sym |-> sym, arg |-> a, ret |-> r]

\* -------------------------------------------- the foreign (C++) functions
\* A pointer to the payload of the optional at address o.
PayloadPtr(o) == [base |-> o, field |-> "payload"]
PayloadPtrs == {PayloadPtr(o) : o \in Objs}
Deref(p) == heap[p.base].val

\* std::optional<T>::has_value
cxx_has_value(v) == heap[v].has
\* std::optional<T>::operator*; on an empty optional the behaviour is
\* undefined and ub stands for whatever pointer the build produces.
cxx_get_unchecked(v, ub) == IF heap[v].has THEN PayloadPtr(v) ELSE ub
\* new (this) std::unique_ptr<std::optional<T>>()
cxx_unique_ptr_null(this) == NULL
\* new (this) std::unique_ptr<std::optional<T>>(raw)
cxx_unique_ptr_raw(this, raw) == raw
\* this->get()
cxx_unique_ptr_get(this) == this
\* this->release(): returns the pointer and leaves *this null
cxx_unique_ptr_release(this) == [this |-> NULL, ret |-> this]
\* this->~unique_ptr(): deletes the owned optional, if any
cxx_unique_ptr_drop(h, this) ==
    IF this = NULL THEN h
    ELSE [h EXCEPT ![this] =
             [st |-> "freed", has |-> FALSE, val |-> 0,
              frees |-> h[this].frees + 1]]

\* ------------------------------------- impl OptionalElement for $ty (Rust)
\* Each binding returns its result and the foreign calls it made.
__has_value(v) ==
    LET r == cxx_has_value(v)
    IN  [ret |-> r,
         calls |-> <<Call(OptionalSymbol(ty, "has_value"), v, r)>>]

\* &*__get_unchecked(v)
__get_unchecked(v, ub) ==
    LET p == cxx_get_unchecked(v, ub)
    IN  [ret |-> p,
         calls |-> <<Call(OptionalSymbol(ty, "get_unchecked"), v, p)>>]

\* A binding that leaves the handle as garbage instead of asking C++.
Mut__unique_ptr_null ==
    [ret |-> 1, calls |-> <<>>]

__unique_ptr_null ==
    LET repr0 == NULL
        repr1 == cxx_unique_ptr_null(repr0)
    IN  [ret |-> repr1,
         calls |-> <<Call(UniquePtrSymbol(ty, "null"), repr0, repr1)>>]

\* A binding that forgets to hand raw to C++ and returns the null repr.
Mut__unique_ptr_raw(raw) ==
    [ret |-> NULL, calls |-> <<>>]

__unique_ptr_raw(raw) ==
    LET repr0 == NULL
        repr1 == cxx_unique_ptr_raw(repr0, raw)
    IN  [ret |-> repr1,
         calls |-> <<Call(UniquePtrSymbol(ty, "raw"), raw, repr1)>>]

__unique_ptr_get(repr) ==
    LET p == cxx_unique_ptr_get(repr)
    IN  [ret |-> p,
         calls |-> <<Call(UniquePtrSymbol(ty, "get"), repr, p)>>]

\* repr is passed by value: C++ nulls the callee's copy (r.this), which is
\* dropped on return; only the released pointer comes back.
__unique_ptr_release(repr) ==
    LET r == cxx_unique_ptr_release(repr)
    IN  [ret |-> r.ret,
         calls |-> <<Call(UniquePtrSymbol(ty, "release"), repr, r.ret)>>]

\* repr is passed by value: the destructor runs on the callee's copy.
__unique_ptr_drop(repr) ==
    [heap |-> cxx_unique_ptr_drop(heap, repr),
     calls |-> <<Call(UniquePtrSymbol(ty, "drop"), repr, NULL)>>]

\* ------------------------------------------------- impl CxxOptional<T>
CxxOptional_is_some(self) == __has_value(self)

\* is_none without the negation.
MutCxxOptional_is_none(self) == CxxOptional_is_some(self)

CxxOptional_is_none(self) ==
    LET s == CxxOptional_is_some(self)
    IN  [ret |-> ~s.ret, calls |-> s.calls]

\* get that reads the value before it checks for one.
MutCxxOptional_get_Eager(self, ub) ==
    LET g == __get_unchecked(self, ub)
        s == CxxOptional_is_some(self)
    IN  IF s.ret
        THEN [ret |-> Some(g.ret), calls |-> g.calls \o s.calls]
        ELSE [ret |-> None, calls |-> g.calls \o s.calls]

\* get with the branches of the presence test swapped.
MutCxxOptional_get_Swapped(self, ub) ==
    LET s == CxxOptional_is_some(self)
    IN  IF ~s.ret
        THEN LET g == __get_unchecked(self, ub)
             IN  [ret |-> Some(g.ret), calls |-> s.calls \o g.calls]
        ELSE [ret |-> None, calls |-> s.calls]

CxxOptional_get(self, ub) ==
    LET s == CxxOptional_is_some(self)
    IN  IF s.ret
        THEN LET g == __get_unchecked(self, ub)
             IN  [ret |-> Some(g.ret), calls |-> s.calls \o g.calls]
        ELSE [ret |-> None, calls |-> s.calls]

CxxOptional_get_unchecked(self, ub) == __get_unchecked(self, ub)

\* --------------------------------------------------------- initial state
Absent == [absent |-> TRUE]
NoObj == [st |-> "none", has |-> FALSE, val |-> 0, frees |-> 0]
NoHandle == [st |-> "unused", repr |-> NULL, from |-> NULL]
\* What reading through a pointer to an empty optional's storage may yield.
UBPtrs == PayloadPtrs \cup {[base |-> NULL, field |-> "payload"]}

CxxInit ==
    /\ ty \in ElementTypes
    /\ heap = [o \in Objs |-> NoObj]
    /\ rawOwned = {}
    /\ handles = [h \in Handles |-> NoHandle]
    /\ op = "init"
    /\ arg = NULL
    /\ ret = NULL
    /\ calls = <<>>

MirrorInit ==
    /\ hostMem = [a \in HostAddrs |-> None]
    /\ mirror = Absent
    /\ hist = Absent
    /\ mop = "init"
    /\ marg = NULL
    /\ mret = NULL

Init == CxxInit /\ MirrorInit

\* ------------------------------------------- operations on CxxOptional<T>
\* The C++ side allocates a std::optional<T>, empty or holding v, and hands
\* the raw pointer to the host.
ForeignAlloc(o, has, v) ==
    /\ heap[o].st = "none"
    /\ heap' = [heap EXCEPT ![o] =
                   [st |-> "live", has |-> has, val |-> v, frees |-> 0]]
    /\ rawOwned' = rawOwned \cup {o}
    /\ op' = "alloc"
    /\ arg' = o
    /\ ret' = o
    /\ calls' = <<>>
    /\ UNCHANGED <<ty, handles>>
    /\ UNCHANGED mirrorVars

IsSome(o) ==
    /\ heap[o].st = "live"
    /\ LET r == CxxOptional_is_some(o)
       IN  /\ op' = "is_some"
           /\ arg' = o
           /\ ret' = r.ret
           /\ calls' = r.calls
    /\ UNCHANGED <<ty, heap, rawOwned, handles>>
    /\ UNCHANGED mirrorVars

IsNone(o) ==
    /\ heap[o].st = "live"
    /\ LET r == CxxOptional_is_none(o)
       IN  /\ op' = "is_none"
           /\ arg' = o
           /\ ret' = r.ret
           /\ calls' = r.calls
    /\ UNCHANGED <<ty, heap, rawOwned, handles>>
    /\ UNCHANGED mirrorVars

Get(o, ub) ==
    /\ heap[o].st = "live"
    /\ LET r == CxxOptional_get(o, ub)
       IN  /\ op' = "get"
           /\ arg' = o
           /\ ret' = r.ret
           /\ calls' = r.calls
    /\ UNCHANGED <<ty, heap, rawOwned, handles>>
    /\ UNCHANGED mirrorVars

GetUnchecked(o, ub) ==
    /\ heap[o].st = "live"
    /\ LET r == CxxOptional_get_unchecked(o, ub)
       IN  /\ op' = "get_unchecked"
           /\ arg' = o
           /\ ret' = r.ret
           /\ calls' = r.calls
    /\ UNCHANGED <<ty, heap, rawOwned, handles>>
    /\ UNCHANGED mirrorVars

\* --------------------------------------- operations on the owning handle
UniquePtrNull(h) ==
    /\ handles[h].st = "unused"
    /\ LET r == __unique_ptr_null
       IN  /\ handles' = [handles EXCEPT ![h] =
                   [st |-> "live", repr |-> r.ret, from |-> NULL]]
           /\ op' = "null"
           /\ arg' = h
           /\ ret' = r.ret
           /\ calls' = r.calls
    /\ UNCHANGED <<ty, heap, rawOwned>>
    /\ UNCHANGED mirrorVars

\* The caller gives up the raw pointer it owns to a new handle.
UniquePtrRaw(h, raw) ==
    /\ handles[h].st = "unused"
    /\ raw \in rawOwned
    /\ LET r == __unique_ptr_raw(raw)
       IN  /\ handles' = [handles EXCEPT ![h] =
                   [st |-> "live", repr |-> r.ret, from |-> raw]]
           /\ op' = "raw"
           /\ arg' = h
           /\ ret' = r.ret
           /\ calls' = r.calls
    /\ rawOwned' = rawOwned \ {raw}
    /\ UNCHANGED <<ty, heap>>
    /\ UNCHANGED mirrorVars

UniquePtrGet(h) ==
    /\ handles[h].st = "live"
    /\ LET r == __unique_ptr_get(handles[h].repr)
       IN  /\ op' = "ptr_get"
           /\ arg' = h
           /\ ret' = r.ret
           /\ calls' = r.calls
    /\ UNCHANGED <<ty, heap, rawOwned, handles>>
    /\ UNCHANGED mirrorVars

\* The handle is copied into the call, so the caller's value is as before.
UniquePtrRelease(h) ==
    /\ handles[h].st = "live"
    /\ LET r == __unique_ptr_release(handles[h].repr)
       IN  /\ rawOwned' = IF r.ret = NULL THEN rawOwned
                          ELSE rawOwned \cup {r.ret}
           /\ op' = "release"
           /\ arg' = h
           /\ ret' = r.ret
           /\ calls' = r.calls
    /\ UNCHANGED <<ty, heap, handles>>
    /\ UNCHANGED mirrorVars

\* After drop the handle must not be used again; its value is as before.
UniquePtrDrop(h) ==
    /\ handles[h].st = "live"
    /\ LET r == __unique_ptr_drop(handles[h].repr)
       IN  /\ heap' = r.heap
           /\ calls' = r.calls
    /\ handles' = [handles EXCEPT ![h].st = "dropped"]
    /\ op' = "drop"
    /\ arg' = h
    /\ ret' = NULL
    /\ UNCHANGED <<ty, rawOwned>>
    /\ UNCHANGED mirrorVars

\* What the accessor may hand back for the optional at o.
Outcomes(o) == IF heap[o].has THEN {PayloadPtr(o)} ELSE UBPtrs

\* The host looking at foreign optionals through &CxxOptional<T>.
Next ==
    \/ \E o \in Objs, has \in BOOLEAN, v \in Values : ForeignAlloc(o, has, v)
    \/ \E o \in Objs : IsSome(o)
    \/ \E o \in Objs : IsNone(o)
    \/ \E o \in Objs : \E ub \in Outcomes(o) : Get(o, ub)
    \/ \E o \in Objs : \E ub \in Outcomes(o) : GetUnchecked(o, ub)

Spec == Init /\ [][Next]_vars

\* The host managing foreign optionals through owning handles.
HandleNext ==
    \/ \E o \in Objs, has \in BOOLEAN, v \in Values : ForeignAlloc(o, has, v)
    \/ \E h \in Handles : UniquePtrNull(h)
    \/ \E h \in Handles, raw \in Objs : UniquePtrRaw(h, raw)
    \/ \E h \in Handles : UniquePtrGet(h)
    \/ \E h \in Handles : UniquePtrRelease(h)
    \/ \E h \in Handles : UniquePtrDrop(h)

HandleSpec == Init /\ [][HandleNext]_vars

\* ------------------------------------------------- impl RustOption<T>
\* A reference into host memory, and the type it is read as.
Ref(a, as) == [addr |-> a, as |-> as]
\* #[repr(C)] struct RustOption<T> { repr: Option<T> }: the only field lies
\* at offset 0, so the Option<T> stored at an address reads as its repr.
Load(r) ==
    IF r.as = "RustOption" THEN [repr |-> hostMem[r.addr]]
    ELSE hostMem[r.addr]

\* new that builds a default value instead of no value.
MutRustOption_new == [repr |-> Some(0)]

RustOption_new == [repr |-> None]

\* from that drops its argument.
MutRustOption_from(v) == [repr |-> None]

RustOption_from(v) == [repr |-> v]

\* &*(v as *const Option<T> as *const RustOption<T>)
RustOption_from_ref(v) == Ref(v.addr, "RustOption")

RustOption_into_option(self) == self.repr

\* &self.repr, as the value it borrows
RustOption_as_option(self) == self.repr

\* &mut self.repr, as the field it borrows
RustOption_as_mut_option(self) == "repr"

\* is_some that asks the wrong question of the native optional.
MutRustOption_is_some(self) == OptionIsNone(self.repr)

RustOption_is_some(self) == OptionIsSome(self.repr)

RustOption_is_none(self) == OptionIsNone(self.repr)

\* ----------------------------------------------- operations on RustOption
\* The host program binds a native optional: let o: Option<T> = ...
HostStore(a, o) ==
    /\ hostMem' = [hostMem EXCEPT ![a] = o]
    /\ mop' = "store"
    /\ marg' = a
    /\ mret' = NULL
    /\ UNCHANGED <<mirror, hist>>
    /\ UNCHANGED cxxVars

New ==
    /\ mirror' = RustOption_new
    /\ hist' = [ctor |-> "new", arg |-> None, written |-> None,
                dirty |-> FALSE]
    /\ mop' = "new"
    /\ marg' = NULL
    /\ mret' = NULL
    /\ UNCHANGED hostMem
    /\ UNCHANGED cxxVars

From(o) ==
    /\ mirror' = RustOption_from(o)
    /\ hist' = [ctor |-> "from", arg |-> o, written |-> o, dirty |-> FALSE]
    /\ mop' = "from"
    /\ marg' = o
    /\ mret' = NULL
    /\ UNCHANGED hostMem
    /\ UNCHANGED cxxVars

\* RustOption::from_ref(&o).is_some(), for the native optional o at a
FromRef(a) ==
    /\ LET r == RustOption_from_ref(Ref(a, "Option"))
       IN  mret' = [ref |-> r,
                    is_some |-> RustOption_is_some(Load(r)),
                    before |-> hostMem[a]]
    /\ mop' = "from_ref"
    /\ marg' = a
    /\ UNCHANGED <<hostMem, mirror, hist>>
    /\ UNCHANGED cxxVars

\* into_option takes self by value: the mirror is gone afterwards.
IntoOption ==
    /\ mirror # Absent
    /\ mret' = RustOption_into_option(mirror)
    /\ mirror' = Absent
    /\ mop' = "into_option"
    /\ marg' = NULL
    /\ UNCHANGED <<hostMem, hist>>
    /\ UNCHANGED cxxVars

AsOption ==
    /\ mirror # Absent
    /\ mret' = RustOption_as_option(mirror)
    /\ mop' = "as_option"
    /\ marg' = NULL
    /\ UNCHANGED <<hostMem, mirror, hist>>
    /\ UNCHANGED cxxVars

\* *self.as_mut_option() = o
AsMutOptionWrite(o) ==
    /\ mirror # Absent
    /\ mirror' = [mirror EXCEPT ![RustOption_as_mut_option(mirror)] = o]
    /\ hist' = [hist EXCEPT !.written = o, !.dirty = TRUE]
    /\ mop' = "as_mut_option"
    /\ marg' = o
    /\ mret' = NULL
    /\ UNCHANGED hostMem
    /\ UNCHANGED cxxVars

MirrorIsSome ==
    /\ mirror # Absent
    /\ mret' = RustOption_is_some(mirror)
    /\ mop' = "is_some"
    /\ marg' = NULL
    /\ UNCHANGED <<hostMem, mirror, hist>>
    /\ UNCHANGED cxxVars

MirrorIsNone ==
    /\ mirror # Absent
    /\ mret' = RustOption_is_none(mirror)
    /\ mop' = "is_none"
    /\ marg' = NULL
    /\ UNCHANGED <<hostMem, mirror, hist>>
    /\ UNCHANGED cxxVars

MirrorNext ==
    \/ \E a \in HostAddrs, o \in Options : HostStore(a, o)
    \/ New
    \/ \E o \in Options : From(o)
    \/ \E a \in HostAddrs : FromRef(a)
    \/ IntoOption
    \/ AsOption
    \/ \E o \in Options : AsMutOptionWrite(o)
    \/ MirrorIsSome
    \/ MirrorIsNone

MirrorSpec == Init /\ [][MirrorNext]_vars

\* ------------------------------------------------------------ properties
HasValueSym == OptionalSymbol(ty, "has_value")
GetUncheckedSym == OptionalSymbol(ty, "get_unchecked")
ViewOps == {"is_some", "is_none", "get", "get_unchecked"}
Owners(o) == {h \in Handles : handles[h].st = "live" /\ handles[h].repr = o}

\* C1: in every execution of CxxOptional::get, a call to the unchecked
\* accessor is preceded by a has-value call on the same container that
\* returned true; when has-value returned false (the container is empty),
\* get returns None and the unchecked accessor is not called at all.
C1_GetChecksBeforeAccess ==
    op = "get" =>
        /\ \A i \in 1..Len(calls) :
               calls[i].sym = GetUncheckedSym =>
                   \E j \in 1..(i - 1) :
                       /\ calls[j].sym = HasValueSym
                       /\ calls[j].arg = calls[i].arg
                       /\ calls[j].ret = TRUE
        /\ \A j \in 1..Len(calls) :
               (calls[j].sym = HasValueSym /\ calls[j].ret = FALSE) =>
                   /\ ret = None
                   /\ \A i \in 1..Len(calls) : calls[i].sym # GetUncheckedSym
        /\ ~heap[arg].has =>
               \A i \in 1..Len(calls) : calls[i].sym # GetUncheckedSym

C1_Witness ==
    /\ op = "get"
    /\ ~heap[arg].has
    /\ ret = None
    /\ Len(calls) = 1
    /\ calls[1].sym = HasValueSym

\* C2: on an empty foreign optional of any supported element type,
\* is_some() returns false, is_none() returns true and get() returns None.
C2_EmptyOptional ==
    (op \in ViewOps /\ ~heap[arg].has) =>
        /\ op = "is_some" => ret = FALSE
        /\ op = "is_none" => ret = TRUE
        /\ op = "get" => ret = None

C2_Witness ==
    /\ op = "is_none"
    /\ ~heap[arg].has
    /\ ret = TRUE

\* C3: on a foreign optional holding v, is_some() returns true, get()
\* returns Some of a reference to the payload, which reads as v, and
\* get_unchecked() returns the same reference as get().unwrap().
C3_HoldingOptional ==
    (op \in ViewOps /\ heap[arg].has) =>
        /\ op = "is_some" => ret = TRUE
        /\ op = "get" =>
               /\ OptionIsSome(ret)
               /\ ret = Some(PayloadPtr(arg))
               /\ Deref(ret[1]) = heap[arg].val
        /\ op = "get_unchecked" =>
               /\ \A ub \in UBPtrs : Some(ret) = CxxOptional_get(arg, ub).ret
               /\ Deref(ret) = heap[arg].val

C3_Witness ==
    /\ op = "get_unchecked"
    /\ heap[arg].has
    /\ heap[arg].val = MaxVal
    /\ ret = PayloadPtr(arg)

\* C4: after release on an owning non-null handle, the handle value the
\* caller holds reads as null and owns nothing.
C4_ReleaseNullsHandle ==
    (op = "release" /\ ret # NULL) =>
        /\ __unique_ptr_get(handles[arg].repr).ret = NULL
        /\ arg \notin Owners(ret)

\* C5: wrapping a raw non-null pointer p with from_raw and then calling
\* release on that handle returns a pointer identical to p.
C5_RawReleaseRoundTrip ==
    (op = "release" /\ handles[arg].from # NULL) =>
        ret = handles[arg].from

C5_Witness ==
    /\ op = "release"
    /\ handles[arg].from # NULL
    /\ ret = handles[arg].from
    /\ ret \in rawOwned

\* C6: a foreign optional is destroyed at most once, a drop on an owning
\* handle destroys the object it owns, and at every point an optional's
\* memory is owned by at most one owning handle.
C6_SingleOwnerDroppedOnce ==
    /\ \A o \in Objs : heap[o].frees <= 1
    /\ \A o \in Objs : Cardinality(Owners(o)) <= 1
    /\ (op = "drop" /\ handles[arg].repr # NULL) =>
           heap[handles[arg].repr].st = "freed"

\* C7: for every native optional o, RustOption::from(o).into_option()
\* equals o.
C7_FromIntoOptionIdentity ==
    (mop = "into_option" /\ hist.ctor = "from" /\ ~hist.dirty) =>
        mret = hist.arg

C7_Witness ==
    /\ mop = "into_option"
    /\ hist.ctor = "from"
    /\ ~hist.dirty
    /\ mret = Some(MaxVal)

\* C8: for every native optional o, RustOption::from_ref(&o).is_some()
\* equals o.is_some(); the reference returned is to o itself and o is as
\* it was before the call.
C8_FromRefIsSome ==
    mop = "from_ref" =>
        /\ mret.is_some = (hostMem[marg] # None)
        /\ mret.ref.addr = marg
        /\ hostMem[marg] = mret.before

C8_Witness ==
    /\ mop = "from_ref"
    /\ hostMem[marg] # None
    /\ mret.is_some = TRUE

\* C10: however a RustOption was built (new, from) and written through
\* as_mut_option, is_some() is true exactly when the most recently written
\* optional holds a value, is_none() is its negation, as_option() and
\* into_option() yield the most recently written optional, and new()
\* yields a mirror for which is_none() is true.
C10_MirrorTracksOption ==
    /\ mirror # Absent =>
           /\ RustOption_is_some(mirror) = (hist.written # None)
           /\ RustOption_is_none(mirror) = ~RustOption_is_some(mirror)
           /\ RustOption_as_option(mirror) = hist.written
    /\ mop = "is_some" => mret = (hist.written # None)
    /\ mop = "is_none" => mret = (hist.written = None)
    /\ mop = "as_option" => mret = hist.written
    /\ mop = "into_option" => mret = hist.written
    /\ mop = "new" => RustOption_is_none(mirror)

C10_Witness ==
    /\ mop = "is_some"
    /\ hist.dirty
    /\ hist.arg = None
    /\ mret = TRUE

\* C9: a handle constructed with null owns nothing: get on it returns a
\* null pointer, whatever the element type.
C9_NullHandleGetsNull ==
    (op = "ptr_get" /\ handles[arg].from = NULL) =>
        /\ ret = NULL
        /\ \A o \in Objs : arg \notin Owners(o)

C9_Witness ==
    /\ op = "ptr_get"
    /\ handles[arg].from = NULL
    /\ ret = NULL

====
